---- MODULE Spec2Model ----
(***************************************************************************)
(* Model of dummy_data_generator/random_data_generator.py: the seeding     *)
(* script that wipes the iot_office tables and regenerates beacons,        *)
(* controller types, controllers and one sensor reading per minute.        *)
(*                                                                         *)
(* The relational store is modelled by two copies of the four tables: the  *)
(* committed content and the content seen by the session's open            *)
(* transaction.  Primary keys and REFERENCES constraints of the schema     *)
(* (lines 31-40) are enforced by the store: a violating statement raises.  *)
(* Every statement may also raise for a reason outside the program (lost   *)
(* connection, rejected statement): the fault input of each action.        *)
(***************************************************************************)
EXTENDS Integers, Sequences, FiniteSets, TLC

(***************************************************************************)
(* Sizes.  The source values are 10 beacons, 10 controllers per beacon,    *)
(* 60 minutes, 24 hours, 7 days and 4 weeks; the model scales them down.   *)
(***************************************************************************)
NUM_OF_BEACONS == 2
\* the factor 10 of line 12
CONTROLLERS_PER_BEACON == 1
NUM_OF_CONTROLLERS == CONTROLLERS_PER_BEACON * NUM_OF_BEACONS
\* the literal 10 of line 81 and the literal 100 of line 92
BEACON_TARGET == NUM_OF_BEACONS
CONTROLLER_TARGET == NUM_OF_CONTROLLERS
\* the literal 60 of lines 159 and 170
MINS_PER_HOUR == 2
DAY_HOURS == 2
\* the literal 24 of line 173
HOURS_WRAP == DAY_HOURS
\* the literal 7 of line 153
DAYS_PER_WEEK == 2
NUM_OF_WEEKS == 1
\* outcomes of the three random bytes beyond the identifiers needed
SpareSuffixes == 1
\* calls of generate_random_data in one process
MaxRuns == 2

CONTROLLER_TYPES == <<"C02", "ELECTRICITY", "MOTION">>

Range(s) == {s[i] : i \in 1..Len(s)}

(***************************************************************************)
(* random.randint(a, b): any integer of a..b.  Small ranges are explored   *)
(* in full, wide ranges at their two ends.                                 *)
(***************************************************************************)
randint(a, b) == IF b - a <= 2 THEN a..b ELSE {a, b}

(***************************************************************************)
(* "%02x" % b: two lowercase hexadecimal digits (three for b > 255).       *)
(***************************************************************************)
HexDigits == <<"0","1","2","3","4","5","6","7","8","9","a","b","c","d","e","f">>

RECURSIVE HexOf(_)
HexOf(n) == IF n < 16 THEN <<HexDigits[n + 1]>>
            ELSE HexOf(n \div 16) \o <<HexDigits[(n % 16) + 1]>>

Fmt02x(b) == IF b < 16 THEN <<"0">> \o HexOf(b) ELSE HexOf(b)

\* "<prefix>:%02x:%02x:%02x" % (b1, b2, b3), as a sequence of characters
MacString(prefix, t) ==
    prefix \o <<":">> \o Fmt02x(t[1]) \o <<":">> \o Fmt02x(t[2]) \o <<":">> \o Fmt02x(t[3])

BeaconPrefix == <<"0","2",":","0","0",":","0","0">>
ControllerPrefix == <<"0","1",":","0","0",":","0","0">>

(***************************************************************************)
(* The outcomes explored for the three random.randint(0, 255) draws of one *)
(* candidate: one more than the identifiers a run needs, so that both a    *)
(* fresh candidate and a collision can be drawn at every iteration.        *)
(***************************************************************************)
Triple(i) == <<i % 256, (16 * i + 10) % 256, 255 - (i % 256)>>
RandomTriples == {Triple(i) : i \in 0..(NUM_OF_CONTROLLERS + SpareSuffixes - 1)}

(***************************************************************************)
(* The store: the tables of lines 31-40.                                   *)
(***************************************************************************)
EmptyStore == [beacons |-> {}, types |-> {}, controllers |-> {}, readings |-> <<>>]

\* Beacons(Beacon macaddr PRIMARY KEY)
InsertBeaconOK(w, m) == m \notin w.beacons
\* Controller_types(Controller_type varchar(20) PRIMARY KEY)
InsertTypeOK(w, n) == n \notin w.types
\* Controllers(Controller PRIMARY KEY, Beacon REFERENCES beacons, Controller_type REFERENCES controller_types)
InsertControllerOK(w, c, b, t) ==
    /\ \A r \in w.controllers : r.Controller # c
    /\ b \in w.beacons
    /\ t \in w.types
\* Sensor_Data(Controller REFERENCES controllers, raw_data JSON, time_recv TIMESTAMP)
InsertReadingOK(w, c) == \E r \in w.controllers : r.Controller = c

\* DELETE of every row of a table: refused while a row of another table references it
DeleteBeaconsOK(w) == \A r \in w.controllers : r.Beacon \notin w.beacons
DeleteTypesOK(w) == \A r \in w.controllers : r.Controller_type \notin w.types
DeleteControllersOK(w) ==
    \A i \in 1..Len(w.readings) :
        \A r \in w.controllers : r.Controller # w.readings[i].Controller


(***************************************************************************)
(* Payload generators (lines 115-145).  json.dumps of the dict is modelled *)
(* as the sequence of its (key, value) members in insertion order.         *)
(***************************************************************************)
generate_co2 ==
    {<<<<"C02", a>>, <<"Temp", b>>, <<"Humidity", c>>>> :
        a \in randint(400, 10000), b \in randint(0, 100), c \in randint(0, 100)}

generate_power ==
    {<<<<"Power", a>>, <<"KwH", b>>, <<"Current", c>>>> :
        a \in randint(0, 100), b \in randint(0, 20), c \in randint(0, 3)}

generate_density == {<<<<"Density", a>>>> : a \in randint(0, 50)}

\* PayloadFor with the first label written "CO2"
PayloadForMisspelt(t, prev) ==
    IF t = "CO2" THEN generate_co2
    ELSE IF t = "ELECTRICITY" THEN generate_power
    ELSE IF t = "MOTION" THEN generate_density
    ELSE {prev}

\* the three ifs of lines 160-165: data keeps its value when no label matches
PayloadFor(t, prev) ==
    IF t = "C02" THEN generate_co2
    ELSE IF t = "ELECTRICITY" THEN generate_power
    ELSE IF t = "MOTION" THEN generate_density
    ELSE {prev}

\* the member names of a payload: what a stored row keeps of it
Keys(d) == [i \in 1..Len(d) |-> d[i][1]]

\* "2021-03-{day} {hours}:{mins}:00"
DateOf(d, h, m) == [year |-> 2021, month |-> 3, day |-> d, hours |-> h, mins |-> m, secs |-> 0]

\* NextHours without the reset of line 175
NextHoursNoReset(h, m) == IF m + 1 = MINS_PER_HOUR THEN h + 1 ELSE h

\* lines 169-175: the counters after one reading
NextMins(m) == IF m + 1 = MINS_PER_HOUR THEN 0 ELSE m + 1
NextHours(h, m) ==
    LET h1 == IF m + 1 = MINS_PER_HOUR THEN h + 1 ELSE h
    IN  IF h1 = HOURS_WRAP THEN 0 ELSE h1
NextDay(d, h, m) ==
    LET h1 == IF m + 1 = MINS_PER_HOUR THEN h + 1 ELSE h
    IN  IF h1 = HOURS_WRAP THEN d + 1 ELSE d

\* WindowDays one day short
WindowDaysShort == NUM_OF_WEEKS * DAYS_PER_WEEK - 1

\* line 153
WindowDays == NUM_OF_WEEKS * DAYS_PER_WEEK

\* FanOut one short
FanOutShort == NUM_OF_CONTROLLERS \div NUM_OF_BEACONS - 1

\* int(NUM_OF_CONTROLLERS/NUM_OF_BEACONS), line 102
FanOut == NUM_OF_CONTROLLERS \div NUM_OF_BEACONS

\* the orders in which a set can be listed or iterated
Orderings(S) ==
    {f \in [1..Cardinality(S) -> S] : \A i, j \in 1..Cardinality(S) : i # j => f[i] # f[j]}

\* Body with the commit issued before generate_sensor_data
BodyCommitBeforeReadings ==
    <<"cursor", "del_data", "del_controllers", "del_types", "del_beacons", "del_data2",
      "gen_macaddr", "gen_types", "gen_controllers", "commit", "gen_sensor", "close">>

\* Body with the beacons deleted first
BodyBeaconsFirst ==
    <<"cursor", "del_beacons", "del_types", "del_controllers", "del_data", "del_data2",
      "gen_macaddr", "gen_types", "gen_controllers", "gen_sensor", "commit", "close">>

(***************************************************************************)
(* The statements of generate_random_data's try block (lines 187-198), in  *)
(* order.                                                                  *)
(***************************************************************************)
Body ==
    <<"cursor", "del_data", "del_controllers", "del_types", "del_beacons", "del_data2",
      "gen_macaddr", "gen_types", "gen_controllers", "gen_sensor", "commit", "close">>

After(p) ==
    LET i == CHOOSE k \in 1..Len(Body) : Body[k] = p
    IN  IF i = Len(Body) THEN "returned" ELSE Body[i + 1]

\* content left in the store by an earlier seeding (any content the schema admits)
PriorMac(prefix) == MacString(prefix, <<171, 205, 239>>)
PriorStore ==
    [beacons |-> {PriorMac(BeaconPrefix)},
     types |-> Range(CONTROLLER_TYPES),
     controllers |-> {[Controller |-> PriorMac(ControllerPrefix),
                       Beacon |-> PriorMac(BeaconPrefix),
                       Controller_type |-> "MOTION"]},
     readings |-> <<[Controller |-> PriorMac(ControllerPrefix),
                     raw_data |-> <<"Density">>,
                     time_recv |-> DateOf(1, 0, 0)]>>]

VARIABLES
    pc,               \* position in the program
    conn,             \* global conn: "none" (None) or "open"
    tx,               \* the session's transaction: "idle", "active" or "aborted"
    committed,        \* committed content of the store
    work,             \* content seen by the session's transaction
    MAC_ADDRS,        \* global set, line 13
    CONTROLLER_MACS,  \* global set, line 14
    controllers,      \* generate_controllers: the list of line 99
    beaconsLeft,      \* generate_controllers: beacons the for of line 101 has yet to visit
    beacon_addr,      \* generate_controllers: loop variable of line 101
    ci,               \* generate_controllers: loop variable of line 102
    name_i,           \* generate_controller_types: position in family
    random_mac,       \* generate_macaddr, generate_controllers: the last candidate
    rows,             \* generate_sensor_data: rows yet to visit
    mac_addr,         \* generate_weekly_data: parameter
    type,             \* generate_weekly_data: parameter
    data,             \* generate_weekly_data: local
    mins,             \* generate_weekly_data: local
    hours,            \* generate_weekly_data: local
    day,              \* generate_weekly_data: local
    di,               \* generate_weekly_data: outer loop variable (line 158)
    mj,               \* generate_weekly_data: inner loop variable (line 159)
    log,              \* kinds of statement sent to the store in this call, repeats merged
    out,              \* number of errors printed
    exitStatus,       \* exit status of the process, -1 while it runs
    committed0,       \* committed content when this call of generate_random_data began
    commits,          \* commits performed by this call
    insertedBeacons,  \* beacon rows inserted by this call of generate_macaddr
    raised,           \* an exception was raised in this call
    envFault,         \* a statement of this call failed for a reason outside the program
    connectFailed,    \* connect() caught an exception
    outcomes          \* how the finished calls of generate_random_data ended

storeVars == <<conn, committed>>
globalVars == <<MAC_ADDRS, CONTROLLER_MACS>>
ctlVars == <<controllers, beaconsLeft, beacon_addr, ci>>
weeklyVars == <<mac_addr, type, data, mins, hours, day, di, mj>>
localVars == <<ctlVars, name_i, rows, weeklyVars, random_mac>>
runVars == <<out, exitStatus, committed0, commits, connectFailed, outcomes>>
vars == <<pc, conn, tx, committed, work, MAC_ADDRS, CONTROLLER_MACS, controllers,
          beaconsLeft, beacon_addr, ci, name_i, random_mac, rows, mac_addr, type, data, mins,
          hours, day, di, mj, log, out, exitStatus, committed0, commits, insertedBeacons,
          raised, envFault, connectFailed, outcomes>>

NoMac == <<>>

CtlReset == controllers' = <<>> /\ beaconsLeft' = {} /\ beacon_addr' = NoMac /\ ci' = 0
WeeklyReset ==
    /\ mac_addr' = NoMac /\ type' = "" /\ data' = <<>>
    /\ mins' = 0 /\ hours' = 0 /\ day' = 0 /\ di' = 0 /\ mj' = 0
LocalsReset ==
    CtlReset /\ WeeklyReset /\ name_i' = 0 /\ rows' = <<>> /\ random_mac' = NoMac

Init ==
    /\ pc = "connect"
    /\ conn = "none"
    /\ tx = "idle"
    /\ committed \in {EmptyStore, PriorStore}
    /\ work = committed
    /\ MAC_ADDRS = {}
    /\ CONTROLLER_MACS = {}
    /\ controllers = <<>> /\ beaconsLeft = {} /\ beacon_addr = NoMac /\ ci = 0
    /\ name_i = 0
    /\ random_mac = NoMac
    /\ rows = <<>>
    /\ mac_addr = NoMac /\ type = "" /\ data = <<>>
    /\ mins = 0 /\ hours = 0 /\ day = 0 /\ di = 0 /\ mj = 0
    /\ log = <<>>
    /\ out = 0
    /\ exitStatus = -1
    /\ committed0 = committed
    /\ commits = 0
    /\ insertedBeacons = 0
    /\ raised = FALSE
    /\ envFault = FALSE
    /\ connectFailed = FALSE
    /\ outcomes = <<>>

(***************************************************************************)
(* cur.execute(statement).  The statement raises when the transaction is   *)
(* already aborted, when the store refuses it (ok false) or when a fault   *)
(* outside the program strikes; a raised statement aborts the transaction, *)
(* whose uncommitted changes are lost, and control passes to the except    *)
(* clause of line 200, the frames of the called functions being dropped.   *)
(***************************************************************************)
Faults == IF tx = "aborted" THEN {FALSE} ELSE BOOLEAN

Fails(fault, ok) == tx = "aborted" \/ fault \/ ~ok

Logged(kind) == IF log # <<>> /\ log[Len(log)] = kind THEN log ELSE Append(log, kind)

Raise(kind, fault) ==
    /\ pc' = "except"
    /\ tx' = "aborted"
    /\ work' = committed
    /\ log' = Logged(kind)
    /\ raised' = TRUE
    /\ envFault' = (envFault \/ fault)
    /\ LocalsReset
    /\ UNCHANGED <<storeVars, runVars>>

Issue(kind, w) ==
    /\ tx' = "active"
    /\ work' = w
    /\ log' = Logged(kind)
    /\ UNCHANGED <<storeVars, runVars, raised, envFault>>


(***************************************************************************)
(* connect(), lines 204-216, and the call of generate_random_data that     *)
(* follows it on line 221 whatever connect() did: the except clause prints *)
(* the error and returns.  r = "no_connection": psycopg2.connect raises    *)
(* and conn stays None; r = "ddl_error": a CREATE statement raises, conn   *)
(* is open and its transaction aborted.                                    *)
(***************************************************************************)
Connect ==
    /\ pc = "connect"
    /\ \E r \in {"ok", "no_connection", "ddl_error"} :
        /\ conn' = IF r = "no_connection" THEN "none" ELSE "open"
        /\ tx' = IF r = "ddl_error" THEN "aborted" ELSE "idle"
        /\ out' = IF r = "ok" THEN out ELSE out + 1
        /\ connectFailed' = (r # "ok")
    /\ pc' = Body[1]
    /\ UNCHANGED <<committed, work, globalVars, localVars, log, exitStatus, committed0,
                   commits, insertedBeacons, raised, envFault, outcomes>>

\* line 187: conn.cursor(); on None an AttributeError
Cursor ==
    /\ pc = "cursor"
    /\ IF conn = "none"
       THEN /\ pc' = "except"
            /\ raised' = TRUE
       ELSE /\ pc' = After("cursor")
            /\ UNCHANGED raised
    /\ UNCHANGED <<storeVars, tx, work, globalVars, localVars, log, runVars,
                   insertedBeacons, envFault>>

\* delete_all_data, lines 72-73, called on lines 188 and 192
DeleteAllData ==
    /\ pc \in {"del_data", "del_data2"}
    /\ \E fault \in Faults :
        IF Fails(fault, TRUE)
        THEN Raise("del_data", fault)
        ELSE /\ Issue("del_data", [work EXCEPT !.readings = <<>>])
             /\ pc' = After(pc)
             /\ UNCHANGED localVars
    /\ UNCHANGED <<globalVars, insertedBeacons>>

\* delete_all_controllers, lines 69-70
DeleteAllControllers ==
    /\ pc = "del_controllers"
    /\ \E fault \in Faults :
        IF Fails(fault, DeleteControllersOK(work))
        THEN Raise("del_controllers", fault)
        ELSE /\ Issue("del_controllers", [work EXCEPT !.controllers = {}])
             /\ pc' = After(pc)
             /\ UNCHANGED localVars
    /\ UNCHANGED <<globalVars, insertedBeacons>>

\* delete_all_controller_types, lines 66-67
DeleteAllControllerTypes ==
    /\ pc = "del_types"
    /\ \E fault \in Faults :
        IF Fails(fault, DeleteTypesOK(work))
        THEN Raise("del_types", fault)
        ELSE /\ Issue("del_types", [work EXCEPT !.types = {}])
             /\ pc' = After(pc)
             /\ UNCHANGED localVars
    /\ UNCHANGED <<globalVars, insertedBeacons>>

\* delete_all_beacons, lines 63-64
DeleteAllBeacons ==
    /\ pc = "del_beacons"
    /\ \E fault \in Faults :
        IF Fails(fault, DeleteBeaconsOK(work))
        THEN Raise("del_beacons", fault)
        ELSE /\ Issue("del_beacons", [work EXCEPT !.beacons = {}])
             /\ pc' = After(pc)
             /\ UNCHANGED localVars
    /\ UNCHANGED <<globalVars, insertedBeacons>>

(***************************************************************************)
(* generate_macaddr, lines 78-88.  varchar_to_macaddr (lines 53-60) sends  *)
(* CREATE FUNCTION and CREATE CAST, which change no table; the store may   *)
(* refuse either (the cast exists already, line 59).                       *)
(***************************************************************************)
VarcharToMacaddr ==
    /\ pc = "gen_macaddr"
    /\ \E fault \in Faults :
        IF Fails(fault, TRUE)
        THEN Raise("create_cast", fault)
        ELSE /\ Issue("create_cast", work)
             /\ pc' = "mac_loop"
             /\ UNCHANGED localVars
    /\ insertedBeacons' = 0
    /\ UNCHANGED globalVars

\* lines 82-86: the candidate is already in MAC_ADDRS and is dropped
MacCollide ==
    /\ pc = "mac_loop"
    /\ Cardinality(MAC_ADDRS) # BEACON_TARGET
    /\ \E t \in RandomTriples :
        /\ MacString(BeaconPrefix, t) \in MAC_ADDRS
        /\ random_mac' = MacString(BeaconPrefix, t)
    /\ UNCHANGED <<pc, storeVars, tx, work, globalVars, ctlVars, name_i, rows, weeklyVars,
                   log, runVars, insertedBeacons, raised, envFault>>

\* lines 82-88: a new candidate is added to MAC_ADDRS, then inserted
MacFresh ==
    /\ pc = "mac_loop"
    /\ Cardinality(MAC_ADDRS) # BEACON_TARGET
    /\ \E t \in RandomTriples :
        LET candidate == MacString(BeaconPrefix, t) IN
        /\ candidate \notin MAC_ADDRS
        /\ MAC_ADDRS' = MAC_ADDRS \cup {candidate}
        /\ \E fault \in Faults :
            IF Fails(fault, InsertBeaconOK(work, candidate))
            THEN /\ Raise("ins_beacon", fault)
                 /\ UNCHANGED insertedBeacons
            ELSE /\ Issue("ins_beacon", [work EXCEPT !.beacons = @ \cup {candidate}])
                 /\ insertedBeacons' = insertedBeacons + 1
                 /\ random_mac' = candidate
                 /\ pc' = "mac_loop"
                 /\ UNCHANGED <<ctlVars, name_i, rows, weeklyVars>>
    /\ UNCHANGED CONTROLLER_MACS

\* line 81: the loop ends when MAC_ADDRS has the target size
MacReturn ==
    /\ pc = "mac_loop"
    /\ Cardinality(MAC_ADDRS) = BEACON_TARGET
    /\ pc' = After("gen_macaddr")
    /\ random_mac' = NoMac
    /\ UNCHANGED <<storeVars, tx, work, globalVars, ctlVars, name_i, rows, weeklyVars, log,
                   runVars, insertedBeacons, raised, envFault>>

(***************************************************************************)
(* generate_controller_types, lines 109-112, family = CONTROLLER_TYPES.    *)
(***************************************************************************)
TypesInsert ==
    /\ pc = "gen_types"
    /\ name_i < Len(CONTROLLER_TYPES)
    /\ LET name == CONTROLLER_TYPES[name_i + 1] IN
       \E fault \in Faults :
        IF Fails(fault, InsertTypeOK(work, name))
        THEN Raise("ins_type", fault)
        ELSE /\ Issue("ins_type", [work EXCEPT !.types = @ \cup {name}])
             /\ name_i' = name_i + 1
             /\ pc' = pc
             /\ UNCHANGED <<ctlVars, rows, weeklyVars, random_mac>>
    /\ UNCHANGED <<globalVars, insertedBeacons>>

TypesReturn ==
    /\ pc = "gen_types"
    /\ name_i = Len(CONTROLLER_TYPES)
    /\ name_i' = 0
    /\ pc' = After("gen_types")
    /\ UNCHANGED <<storeVars, tx, work, globalVars, ctlVars, rows, weeklyVars, random_mac,
                   log, runVars, insertedBeacons, raised, envFault>>

(***************************************************************************)
(* generate_controllers, lines 90-104.                                     *)
(***************************************************************************)
\* lines 93-96: the candidate is already in CONTROLLER_MACS
CtlCollide ==
    /\ pc = "gen_controllers"
    /\ Cardinality(CONTROLLER_MACS) # CONTROLLER_TARGET
    /\ \E t \in RandomTriples :
        /\ MacString(ControllerPrefix, t) \in CONTROLLER_MACS
        /\ random_mac' = MacString(ControllerPrefix, t)
    /\ UNCHANGED <<pc, storeVars, tx, work, globalVars, ctlVars, name_i, rows, weeklyVars,
                   log, runVars, insertedBeacons, raised, envFault>>

\* lines 93-97: a new candidate is added to CONTROLLER_MACS
CtlFresh ==
    /\ pc = "gen_controllers"
    /\ Cardinality(CONTROLLER_MACS) # CONTROLLER_TARGET
    /\ \E t \in RandomTriples :
        /\ MacString(ControllerPrefix, t) \notin CONTROLLER_MACS
        /\ CONTROLLER_MACS' = CONTROLLER_MACS \cup {MacString(ControllerPrefix, t)}
        /\ random_mac' = MacString(ControllerPrefix, t)
    /\ UNCHANGED <<pc, storeVars, tx, work, MAC_ADDRS, ctlVars, name_i, rows, weeklyVars,
                   log, runVars, insertedBeacons, raised, envFault>>

\* lines 99-101: list(CONTROLLER_MACS) in some order; the for loop over MAC_ADDRS begins
CtlList ==
    /\ pc = "gen_controllers"
    /\ Cardinality(CONTROLLER_MACS) = CONTROLLER_TARGET
    /\ controllers' \in Orderings(CONTROLLER_MACS)
    /\ beaconsLeft' = MAC_ADDRS
    /\ pc' = "ctl_outer"
    /\ UNCHANGED <<storeVars, tx, work, globalVars, beacon_addr, ci, name_i, rows,
                   weeklyVars, random_mac, log, runVars, insertedBeacons, raised, envFault>>

\* line 101: the next beacon, in the set's iteration order
CtlNextBeacon ==
    /\ pc = "ctl_outer"
    /\ \E b \in beaconsLeft :
        /\ beacon_addr' = b
        /\ beaconsLeft' = beaconsLeft \ {b}
    /\ ci' = 0
    /\ pc' = "ctl_inner"
    /\ UNCHANGED <<storeVars, tx, work, globalVars, controllers, name_i, rows,
                   weeklyVars, random_mac, log, runVars, insertedBeacons, raised, envFault>>

\* lines 102-104: one controller row; controllers.pop() takes the last element
CtlInsert ==
    /\ pc = "ctl_inner"
    /\ ci < FanOut
    /\ controllers # <<>>
    /\ \E r \in randint(0, 2) :
        LET family == CONTROLLER_TYPES[r + 1]
            popped == controllers[Len(controllers)]
            row == [Controller |-> popped, Beacon |-> beacon_addr, Controller_type |-> family]
        IN  \E fault \in Faults :
            IF Fails(fault, InsertControllerOK(work, popped, beacon_addr, family))
            THEN Raise("ins_controller", fault)
            ELSE /\ Issue("ins_controller", [work EXCEPT !.controllers = @ \cup {row}])
                 /\ controllers' = SubSeq(controllers, 1, Len(controllers) - 1)
                 /\ ci' = ci + 1
                 /\ pc' = pc
                 /\ UNCHANGED <<beaconsLeft, beacon_addr, name_i, rows, weeklyVars,
                                random_mac>>
    /\ UNCHANGED <<globalVars, insertedBeacons>>

\* line 102: the range is exhausted
CtlInnerDone ==
    /\ pc = "ctl_inner"
    /\ ci = FanOut
    /\ pc' = "ctl_outer"
    /\ UNCHANGED <<storeVars, tx, work, globalVars, localVars, log, runVars,
                   insertedBeacons, raised, envFault>>

\* line 101: every beacon visited, the function returns
CtlReturn ==
    /\ pc = "ctl_outer"
    /\ beaconsLeft = {}
    /\ CtlReset
    /\ random_mac' = NoMac
    /\ pc' = After("gen_controllers")
    /\ UNCHANGED <<storeVars, tx, work, globalVars, name_i, rows, weeklyVars, log,
                   runVars, insertedBeacons, raised, envFault>>


(***************************************************************************)
(* generate_sensor_data, lines 178-182, and generate_weekly_data, lines    *)
(* 152-175.                                                                *)
(***************************************************************************)
\* lines 179-180: the rows of controllers, in the order the store returns them
SensorSelect ==
    /\ pc = "gen_sensor"
    /\ \E fault \in Faults :
        IF Fails(fault, TRUE)
        THEN Raise("select", fault)
        ELSE /\ Issue("select", work)
             /\ rows' \in Orderings({<<r.Controller, r.Controller_type>> : r \in work.controllers})
             /\ pc' = "sensor_rows"
             /\ UNCHANGED <<ctlVars, name_i, weeklyVars, random_mac>>
    /\ UNCHANGED <<globalVars, insertedBeacons>>

\* lines 181-182 and 153-157: the call of generate_weekly_data for the next row
SensorNextRow ==
    /\ pc = "sensor_rows"
    /\ rows # <<>>
    /\ mac_addr' = Head(rows)[1]
    /\ type' = Head(rows)[2]
    /\ rows' = Tail(rows)
    /\ mins' = 0 /\ hours' = 0 /\ day' = 1 /\ data' = <<>>
    /\ di' = 1 /\ mj' = 0
    /\ pc' = "weekly"
    /\ UNCHANGED <<storeVars, tx, work, globalVars, ctlVars, name_i, random_mac, log,
                   runVars, insertedBeacons, raised, envFault>>

\* lines 160-175: one reading
WeeklyBody ==
    /\ pc = "weekly"
    /\ di <= WindowDays
    /\ mj < DAY_HOURS * MINS_PER_HOUR
    /\ \E d \in PayloadFor(type, data) :
        LET row == [Controller |-> mac_addr, raw_data |-> Keys(d),
                    time_recv |-> DateOf(day, hours, mins)]
        IN  \E fault \in Faults :
            IF Fails(fault, InsertReadingOK(work, mac_addr))
            THEN Raise("ins_reading", fault)
            ELSE /\ Issue("ins_reading", [work EXCEPT !.readings = Append(@, row)])
                 /\ data' = d
                 /\ mins' = NextMins(mins)
                 /\ hours' = NextHours(hours, mins)
                 /\ day' = NextDay(day, hours, mins)
                 /\ mj' = mj + 1
                 /\ pc' = pc
                 /\ UNCHANGED <<ctlVars, name_i, random_mac, rows, mac_addr, type, di>>
    /\ UNCHANGED <<globalVars, insertedBeacons>>

\* line 159 exhausted: the next day of line 158
WeeklyNextDay ==
    /\ pc = "weekly"
    /\ di <= WindowDays
    /\ mj = DAY_HOURS * MINS_PER_HOUR
    /\ di' = di + 1
    /\ mj' = 0
    /\ UNCHANGED <<pc, storeVars, tx, work, globalVars, ctlVars, name_i, random_mac, rows,
                   mac_addr, type, data, mins, hours, day, log, runVars, insertedBeacons,
                   raised, envFault>>

\* line 158 exhausted: generate_weekly_data returns
WeeklyReturn ==
    /\ pc = "weekly"
    /\ di > WindowDays
    /\ WeeklyReset
    /\ pc' = "sensor_rows"
    /\ UNCHANGED <<storeVars, tx, work, globalVars, ctlVars, name_i, random_mac, rows, log,
                   runVars, insertedBeacons, raised, envFault>>

\* line 181 exhausted: generate_sensor_data returns
SensorReturn ==
    /\ pc = "sensor_rows"
    /\ rows = <<>>
    /\ pc' = After("gen_sensor")
    /\ UNCHANGED <<storeVars, tx, work, globalVars, localVars, log, runVars,
                   insertedBeacons, raised, envFault>>

\* line 197: conn.commit() makes the transaction's content the committed content
Commit ==
    /\ pc = "commit"
    /\ \E fault \in Faults :
        IF Fails(fault, TRUE)
        THEN Raise("commit", fault)
        ELSE /\ committed' = work
             /\ tx' = "idle"
             /\ commits' = commits + 1
             /\ log' = Logged("commit")
             /\ pc' = After(pc)
             /\ UNCHANGED <<conn, work, localVars, out, exitStatus, committed0,
                            connectFailed, outcomes, raised, envFault>>
    /\ UNCHANGED <<globalVars, insertedBeacons>>

\* line 198: cur.close(); generate_random_data returns
Close ==
    /\ pc = "close"
    /\ pc' = After(pc)
    /\ outcomes' = IF After(pc) = "returned" THEN Append(outcomes, "done") ELSE outcomes
    /\ UNCHANGED <<storeVars, tx, work, globalVars, localVars, log, out, exitStatus,
                   committed0, commits, connectFailed, insertedBeacons, raised, envFault>>

\* lines 200-201: the exception is printed and generate_random_data returns
Except ==
    /\ pc = "except"
    /\ out' = out + 1
    /\ outcomes' = Append(outcomes, "error")
    /\ pc' = "returned"
    /\ UNCHANGED <<storeVars, tx, work, globalVars, localVars, log, exitStatus,
                   committed0, commits, connectFailed, insertedBeacons, raised, envFault>>

\* line 221 was the last statement: the interpreter exits with status 0
Exit ==
    /\ pc = "returned"
    /\ pc' = "exited"
    /\ exitStatus' = 0
    /\ UNCHANGED <<storeVars, tx, work, globalVars, localVars, log, out, committed0,
                   commits, connectFailed, insertedBeacons, raised, envFault, outcomes>>

\* generate_random_data is called again in the same process: the globals of
\* lines 13, 14 and 26 keep their values
CallAgain ==
    /\ pc = "returned"
    /\ Len(outcomes) < MaxRuns
    /\ pc' = Body[1]
    /\ log' = <<>>
    /\ committed0' = committed
    /\ commits' = 0
    /\ insertedBeacons' = 0
    /\ raised' = FALSE
    /\ envFault' = FALSE
    /\ UNCHANGED <<storeVars, tx, work, globalVars, localVars, out, exitStatus,
                   connectFailed, outcomes>>

Next ==
    \/ Connect
    \/ Cursor
    \/ DeleteAllData
    \/ DeleteAllControllers
    \/ DeleteAllControllerTypes
    \/ DeleteAllBeacons
    \/ VarcharToMacaddr
    \/ MacCollide
    \/ MacFresh
    \/ MacReturn
    \/ TypesInsert
    \/ TypesReturn
    \/ CtlCollide
    \/ CtlFresh
    \/ CtlList
    \/ CtlNextBeacon
    \/ CtlInsert
    \/ CtlInnerDone
    \/ CtlReturn
    \/ SensorSelect
    \/ SensorNextRow
    \/ WeeklyBody
    \/ WeeklyNextDay
    \/ WeeklyReturn
    \/ SensorReturn
    \/ Commit
    \/ Close
    \/ Except
    \/ Exit
    \/ CallAgain

Spec == Init /\ [][Next]_vars


(***************************************************************************)
(* generate_sensor_data's loop on its own: the state after line 180        *)
(* fetched two controller rows of any two types, and the calls of          *)
(* generate_weekly_data that follow.                                       *)
(***************************************************************************)
WeeklyStore(t1, t2) ==
    [beacons |-> {MacString(BeaconPrefix, Triple(0))},
     types |-> Range(CONTROLLER_TYPES),
     controllers |-> {[Controller |-> MacString(ControllerPrefix, Triple(0)),
                       Beacon |-> MacString(BeaconPrefix, Triple(0)),
                       Controller_type |-> t1],
                      [Controller |-> MacString(ControllerPrefix, Triple(1)),
                       Beacon |-> MacString(BeaconPrefix, Triple(0)),
                       Controller_type |-> t2]},
     readings |-> <<>>]

InitWeekly ==
    /\ pc = "sensor_rows"
    /\ conn = "open"
    /\ tx = "active"
    /\ committed = EmptyStore
    /\ \E t1, t2 \in Range(CONTROLLER_TYPES) :
        /\ work = WeeklyStore(t1, t2)
        /\ rows = <<<<MacString(ControllerPrefix, Triple(0)), t1>>,
                    <<MacString(ControllerPrefix, Triple(1)), t2>>>>
    /\ MAC_ADDRS = work.beacons
    /\ CONTROLLER_MACS = {r.Controller : r \in work.controllers}
    /\ controllers = <<>> /\ beaconsLeft = {} /\ beacon_addr = NoMac /\ ci = 0
    /\ name_i = 0
    /\ random_mac = NoMac
    /\ mac_addr = NoMac /\ type = "" /\ data = <<>>
    /\ mins = 0 /\ hours = 0 /\ day = 0 /\ di = 0 /\ mj = 0
    /\ log = <<"del_data", "del_controllers", "del_types", "del_beacons", "del_data",
               "create_cast", "ins_beacon", "ins_type", "ins_controller", "select">>
    /\ out = 0
    /\ exitStatus = -1
    /\ committed0 = committed
    /\ commits = 0
    /\ insertedBeacons = Cardinality(work.beacons)
    /\ raised = FALSE
    /\ envFault = FALSE
    /\ connectFailed = FALSE
    /\ outcomes = <<>>

NextWeekly ==
    \/ SensorNextRow
    \/ WeeklyBody
    \/ WeeklyNextDay
    \/ WeeklyReturn
    \/ SensorReturn

SpecWeekly == InitWeekly /\ [][NextWeekly]_vars

(***************************************************************************)
(* The program keeps taking steps, and random sampling is fair: a fresh    *)
(* candidate is drawn eventually as long as one exists.                    *)
(***************************************************************************)
FairSpec == Spec /\ WF_vars(Next) /\ WF_vars(MacFresh) /\ WF_vars(CtlFresh)

(***************************************************************************)
(* Vocabulary of the properties.                                           *)
(***************************************************************************)
\* readings one controller gets: 60 x 24 x 7 x NUM_OF_WEEKS in the source's sizes
ReadingsPerController == MINS_PER_HOUR * DAY_HOURS * DAYS_PER_WEEK * NUM_OF_WEEKS

RowCounts(s) ==
    <<Cardinality(s.beacons), Cardinality(s.types), Cardinality(s.controllers),
      Len(s.readings)>>

FullCounts ==
    <<NUM_OF_BEACONS, 3, NUM_OF_CONTROLLERS, NUM_OF_CONTROLLERS * ReadingsPerController>>

\* the timestamps of a controller's readings, in insertion order
TimesOf(s, c) ==
    LET own == SelectSeq(s.readings, LAMBDA r : r.Controller = c)
    IN  [i \in 1..Len(own) |-> own[i].time_recv]

\* u is the minute after t
MinuteAfter(t, u) ==
    IF t.mins # MINS_PER_HOUR - 1
    THEN u.mins = t.mins + 1 /\ u.hours = t.hours /\ u.day = t.day
    ELSE /\ u.mins = 0
         /\ IF t.hours # DAY_HOURS - 1
            THEN u.hours = t.hours + 1 /\ u.day = t.day
            ELSE u.hours = 0 /\ u.day = t.day + 1

InWindow(t) ==
    /\ t.mins \in 0..(MINS_PER_HOUR - 1)
    /\ t.hours \in 0..(DAY_HOURS - 1)
    /\ t.day \in 1..(DAYS_PER_WEEK * NUM_OF_WEEKS)

\* the controllers generate_sensor_data has finished with
Finished(c) ==
    /\ pc \in {"sensor_rows", "weekly", "commit"}
    /\ c # mac_addr
    /\ \A i \in 1..Len(rows) : rows[i][1] # c

StoreError == raised /\ conn = "open"

IsHex(ch) == \E i \in 1..16 : HexDigits[i] = ch

\* 02:00:00:xx:xx:xx
BeaconFormat(m) ==
    /\ Len(m) = 17
    /\ SubSeq(m, 1, 9) = <<"0","2",":","0","0",":","0","0",":">>
    /\ m[12] = ":" /\ m[15] = ":"
    /\ \A i \in {10, 11, 13, 14, 16, 17} : IsHex(m[i])

FieldsOf(t) ==
    IF t = "C02" THEN <<"C02", "Temp", "Humidity">>
    ELSE IF t = "ELECTRICITY" THEN <<"Power", "KwH", "Current">>
    ELSE IF t = "MOTION" THEN <<"Density">>
    ELSE <<>>

FieldRange(f) ==
    CASE f = "C02" -> 400..10000
      [] f = "Temp" -> 0..100
      [] f = "Humidity" -> 0..100
      [] f = "Power" -> 0..100
      [] f = "KwH" -> 0..20
      [] f = "Current" -> 0..3
      [] f = "Density" -> 0..50

PayloadOK(t, d) ==
    /\ t \in Range(CONTROLLER_TYPES)
    /\ Keys(d) = FieldsOf(t)
    /\ \A i \in 1..Len(d) : d[i][2] \in FieldRange(d[i][1])

TypeOfController(s, c) ==
    LET r == CHOOSE x \in s.controllers : x.Controller = c IN r.Controller_type

FirstIndex(kind) ==
    IF \E i \in 1..Len(log) : log[i] = kind
    THEN CHOOSE i \in 1..Len(log) : log[i] = kind /\ \A j \in 1..(i - 1) : log[j] # kind
    ELSE 0

DeleteOrder == <<"del_data", "del_controllers", "del_types", "del_beacons">>
InsertKinds == {"ins_beacon", "ins_type", "ins_controller", "ins_reading"}

Referential(s) ==
    /\ \A r \in s.controllers : r.Beacon \in s.beacons /\ r.Controller_type \in s.types
    /\ \A i \in 1..Len(s.readings) :
        \E r \in s.controllers : r.Controller = s.readings[i].Controller


NeverAfter(a, b) == \A i, j \in 1..Len(log) : i < j => ~(log[i] = b /\ log[j] = a)

(***************************************************************************)
(* C1.  Generation is all-or-nothing: while a call of generate_random_data *)
(* has not committed, and after it failed at any statement, the committed  *)
(* content equals the content the call started from; the call commits at   *)
(* most once, and what it commits is the complete generation.              *)
(***************************************************************************)
C1_AllOrNothing ==
    /\ commits = 0 => committed = committed0
    /\ raised => committed = committed0
    /\ commits # 0 =>
        /\ commits = 1
        /\ committed = work
        /\ RowCounts(committed) = FullCounts

\* a call that failed while inserting readings over a seeded store
C1_Witness ==
    /\ pc = "returned"
    /\ raised /\ envFault
    /\ log # <<>> /\ log[Len(log)] = "ins_reading"
    /\ committed = PriorStore

(***************************************************************************)
(* C2.  The readings of every controller carry timestamps inside the       *)
(* window, each the minute after the one before it (mins wraps into hours, *)
(* hours into day), and a controller generate_weekly_data has finished     *)
(* with has exactly 60 x 24 x 7 x NUM_OF_WEEKS readings.                   *)
(***************************************************************************)
C2_MinuteSteps ==
    \A r \in work.controllers :
        LET ts == TimesOf(work, r.Controller)
        IN  /\ \A i \in 1..Len(ts) : InWindow(ts[i])
            /\ \A i \in 1..(Len(ts) - 1) : MinuteAfter(ts[i], ts[i + 1])
            /\ Finished(r.Controller) => Len(ts) = ReadingsPerController

\* every controller's window has been generated, up to the last minute of the last day
C2_Witness ==
    /\ pc = "sensor_rows"
    /\ rows = <<>>
    /\ Len(work.readings) = Cardinality(work.controllers) * ReadingsPerController
    /\ Cardinality(work.controllers) > 1
    /\ work.readings[Len(work.readings)].time_recv =
           DateOf(DAYS_PER_WEEK * NUM_OF_WEEKS, DAY_HOURS - 1, MINS_PER_HOUR - 1)

C4_BeaconsGenerated ==
    (pc = After("gen_macaddr") /\ name_i = 0 /\ FirstIndex("ins_type") = 0)
    => /\ insertedBeacons = NUM_OF_BEACONS
       /\ Cardinality(MAC_ADDRS) = NUM_OF_BEACONS
       /\ work.beacons = MAC_ADDRS
       /\ \A m \in MAC_ADDRS : BeaconFormat(m)

(***************************************************************************)
(* C5.  When generate_controllers returns, NUM_OF_CONTROLLERS controller   *)
(* rows have been inserted, with pairwise distinct identifiers, every      *)
(* generated identifier in one row, every row referencing a beacon of the  *)
(* beacons table, and every beacon referenced by NUM_OF_CONTROLLERS /      *)
(* NUM_OF_BEACONS rows.                                                    *)
(***************************************************************************)
C5_Topology ==
    pc = After("gen_controllers") /\ FirstIndex("select") = 0
    => /\ Cardinality(work.controllers) = NUM_OF_CONTROLLERS
       /\ Cardinality({r.Controller : r \in work.controllers}) = NUM_OF_CONTROLLERS
       /\ {r.Controller : r \in work.controllers} = CONTROLLER_MACS
       /\ \A r \in work.controllers : r.Beacon \in work.beacons
       /\ \A b \in work.beacons :
            Cardinality({r \in work.controllers : r.Beacon = b}) * NUM_OF_BEACONS
                = NUM_OF_CONTROLLERS

\* generate_controllers has returned over a seeded store, with two types in use
C5_Witness ==
    /\ pc = After("gen_controllers")
    /\ FirstIndex("select") = 0
    /\ committed = PriorStore
    /\ Cardinality(work.controllers) = NUM_OF_CONTROLLERS
    /\ Cardinality({r.Controller_type : r \in work.controllers}) > 1

(***************************************************************************)
(* C6.  The statements of a call are sent in dependency order: the first   *)
(* four are the deletes of readings, controllers, controller types and     *)
(* beacons, no insert comes before them, no beacon or type is inserted     *)
(* after a controller and no controller after a reading; and at every      *)
(* moment every controller row references an existing beacon and type and  *)
(* every reading row an existing controller.                               *)
(***************************************************************************)
C6_DependencyOrder ==
    /\ \A k \in 1..Len(log) : k <= 4 => log[k] = DeleteOrder[k]
    /\ \A k \in 1..Len(log) : log[k] \in InsertKinds => k > 4
    /\ NeverAfter("ins_beacon", "ins_controller")
    /\ NeverAfter("ins_type", "ins_controller")
    /\ NeverAfter("ins_controller", "ins_reading")
    /\ Referential(work)

\* readings are being inserted after a seeded store was wiped
C6_Witness ==
    /\ pc = "weekly"
    /\ committed = PriorStore
    /\ Len(work.readings) > 1
    /\ FirstIndex("ins_reading") # 0

(***************************************************************************)
(* C7.  A process in which a store statement raised ends with the          *)
(* transaction rolled back, the error printed and a non-zero exit status.  *)
(***************************************************************************)
C7_ErrorAborts ==
    (pc = "exited" /\ StoreError)
    => /\ out > 0
       /\ tx # "aborted"
       /\ exitStatus # 0

(***************************************************************************)
(* C8.  After connect() failed, no statement of the reset or generation    *)
(* stages is sent to the store.                                            *)
(***************************************************************************)
C8_ConnectFailureFatal == connectFailed => log = <<>>

(***************************************************************************)
(* C9.  Every controller row has one of the three labels; every reading    *)
(* row carries the fields of its controller's type; the payload            *)
(* generate_weekly_data has just inserted has exactly the fields of the    *)
(* controller's type, each inside its range, and is never empty.           *)
(***************************************************************************)
C9_PayloadMatchesType ==
    /\ \A r \in work.controllers : r.Controller_type \in Range(CONTROLLER_TYPES)
    /\ \A i \in 1..Len(work.readings) :
        LET row == work.readings[i]
        IN  /\ row.raw_data # <<>>
            /\ row.raw_data = FieldsOf(TypeOfController(work, row.Controller))
    /\ (pc = "weekly" /\ (mj > 0 \/ di > 1)) =>
        /\ PayloadOK(type, data)
        /\ type = TypeOfController(work, mac_addr)

\* an electricity reading has been inserted with Current at the top of its range
C9_Witness ==
    /\ pc = "weekly"
    /\ type = "ELECTRICITY"
    /\ mj > 0
    /\ data = <<<<"Power", 0>>, <<"KwH", 20>>, <<"Current", 3>>>>
    /\ work.readings[Len(work.readings)].raw_data = <<"Power", "KwH", "Current">>

\* what a call may do with its commit
CommitDiscipline ==
    /\ commits <= 1
    /\ \A k \in 1..Len(log) : log[k] = "commit" => k = Len(log)
    /\ commits = 1 =>
        /\ Cardinality(work.controllers) = NUM_OF_CONTROLLERS
        /\ \A r \in work.controllers :
            Len(TimesOf(work, r.Controller)) = ReadingsPerController
    /\ (pc = "returned" /\ ~raised) => commits = 1

\* the call has returned, committed or with its error printed
CallEnded ==
    /\ pc = "returned"
    /\ \/ commits = 1 /\ ~raised /\ outcomes[Len(outcomes)] = "done"
       \/ raised /\ out > 0 /\ outcomes[Len(outcomes)] = "error"

(***************************************************************************)
(* C10.  A call commits at most once, the commit is the last statement it  *)
(* sends and comes only when every controller row has its complete window  *)
(* of readings; a call in which nothing raised ends having committed once; *)
(* and under fair sampling every call ends, either committed or with its   *)
(* error printed.                                                          *)
(***************************************************************************)
C10_CommitOnceAndTerminate == [](CommitDiscipline) /\ ((pc = "cursor") ~> CallEnded)

\* a call over a seeded store has returned after its single commit
C10_Witness ==
    /\ pc = "returned"
    /\ commits = 1
    /\ ~raised
    /\ committed0 = PriorStore
    /\ committed # PriorStore

====
